---- MODULE Spec2Model ----
(***************************************************************************)
(* The capture / segmentation / inference pipeline of src/asr.py.          *)
(*                                                                         *)
(* Threads: the audio subsystem's callback thread (audio_callback), the    *)
(* capture worker (AudioCaptureThread.run), the inference worker           *)
(* (ASRTranscriber.run) and the controller thread (ASR.stop, ASR.set_mode).*)
(* Every queue operation is one atomic step (queue.Queue is locked); the   *)
(* code between two queue operations of one thread touches only that       *)
(* thread's own state and is folded into the step that follows.            *)
(*                                                                         *)
(* Time is counted in ticks of 0.1 s.  A frame is the number of the device *)
(* block it was copied from (1, 2, ...); block n is loud iff the energy    *)
(* pattern chosen at the start says so.  An utterance is the sequence of   *)
(* the frames concatenated into it.                                        *)
(*                                                                         *)
(* Specifications:                                                         *)
(*   Spec      the pipeline from ASR.__init__ and start(): the capture     *)
(*             worker begins at line 75, the inference worker at line 157, *)
(*             and the segment queue, which both constructors take as a    *)
(*             parameter (lines 19, 137), holds 0..5 utterances;           *)
(*   SpecCap   the device callback and the capture worker's loop, the      *)
(*             worker standing at the head of its loop (line 84) with the  *)
(*             stream delivering blocks.  CapOpen in Spec shows that line  *)
(*             77 ends run() before this point; the properties of the loop *)
(*             are stated from the loop's head all the same;               *)
(*   SpecStop  both workers inside their loops and stop(), nothing ever    *)
(*             enqueued;                                                   *)
(*   SpecAll   the callback, the capture worker's loop, the inference      *)
(*             worker and stop() together, on a silent stream and a full   *)
(*             segment queue;                                              *)
(*   FairSpecStop, FairSpecCtl  the same as SpecStop and Spec with the     *)
(*             scheduling of the threads stated as fairness.               *)
(***************************************************************************)
EXTENDS Integers, Sequences, FiniteSets, TLC

\* ------------------------------------------------------------ bounds
\* Device blocks delivered to the callback.
MaxFrames == 11
\* Longest run of trailing quiet blocks spelled out in an energy pattern.
MaxQuiet == 3

\* ------------------------------------------------- program constants
\* queue.Queue(maxsize=10), line 40
FrameQueueMax == 10
\* queue.Queue(maxsize=5), line 217
SegmentQueueMax == 5
\* chunk_duration_sec = 0.5, line 19
BlockTicks == 5
\* silence_sec = 0.8, line 19
SilenceTicks == 8

VARIABLES
    \* --- device callback (lines 48-71)
    cbPc,          \* "idle" | "evict" (line 63 next) | "retry" (line 68 next)
    cbFrame,       \* the frame the running callback holds, 0 if none
    delivered,     \* device blocks handed to the callback so far
    pattern,       \* energy pattern of the blocks: <<TRUE, ...>>, TRUE = loud
    frameQ,        \* self._audio_frame_queue
    \* --- capture worker (lines 73-127)
    capPc,         \* "open" | "loop" | "get" | "frame" | "done" | "failed" | "raised"
    frame,         \* the frame dequeued at line 87, 0 if none
    consumed,      \* frames the worker has dequeued so far
    buffer,        \* the utterance buffer read as self._current_buffer
    silenceStart,  \* self._silence_start_time, NoTime if None
    stop_event,    \* threading.Event of line 218
    \* --- segment queue and inference worker (lines 155-203)
    segQ,          \* ASR.segment_queue
    infPc,         \* "load" | "check" | "get" | "asr" | "translate" | "done" | "failed" | "raised"
    segment,       \* the item dequeued at line 167
    language,      \* the hint computed at line 177 for the current segment
    transcribed,   \* transcribed_text of the current segment
    mode,          \* ASRTranscriber.mode
    interruption,  \* QThread interruption flag
    shown,         \* last text given to new_text.emit
    logged,        \* last text given to logger.log
    \* --- controller (lines 224-261)
    stopPc,        \* "idle" | "join" | "put" | "evict" | "retry" | "interrupt" | "wait" | "returned"
    stopSnap,      \* <<capPc, infPc>> when stop() was entered
    modeArg,       \* argument of the last set_mode call, "" if none
    modeErr,       \* "ValueError" if the last set_mode call raised, else ""
    evicted,       \* the items stop() removed at line 242
    console        \* the messages printed so far

capVars == <<cbPc, cbFrame, delivered, pattern, frameQ, capPc, frame, consumed, buffer,
            silenceStart>>
infVars == <<infPc, segment, language, transcribed, shown, logged>>
ctlVars == <<stopPc, stopSnap, modeArg, modeErr, evicted>>
vars == <<cbPc, cbFrame, delivered, pattern, frameQ, capPc, frame, consumed, buffer,
          silenceStart, stop_event, segQ, infPc, segment, language, transcribed,
          mode, interruption, shown, logged, stopPc, stopSnap,
          modeArg, modeErr, evicted, console>>

\* ------------------------------------------------------------ values
NoTime == -1

\* The sentinel None of line 238 and an utterance (np.concatenate, line 104).
NoneItem == [none |-> TRUE, frames |-> <<>>]
Utt(fs) == [none |-> FALSE, frames |-> fs]

\* Texts: None (or nothing yet), the empty string, a transcription of
\* utterance u under language hint l, a translation of text t in direction d.
NoText == [kind |-> "none", utt |-> 0, lang |-> "", dir |-> ""]
EmptyText == [kind |-> "empty", utt |-> 0, lang |-> "", dir |-> ""]
AsrText(u, l) == [kind |-> "asr", utt |-> u, lang |-> l, dir |-> ""]
MtText(t, d) == [kind |-> "mt", utt |-> t.utt, lang |-> t.lang, dir |-> d]

\* Python truthiness of a str-or-None value.
Truthy(t) == t.kind \in {"asr", "mt"}

ValidModes == {"EN->AR", "AR->EN"}
ModeArgs == ValidModes \cup {"FR->EN"}

\* ------------------------------------------------ energy patterns
Rep(b, n) == [i \in 1..n |-> b]

\* [loud]*3 + [quiet]*k, [loud]*2 + [quiet]*1 + [loud]*2 + [quiet]*MaxQuiet,
\* and the all-silence stream.  Blocks after the pattern are quiet.
BoundaryPattern(k) == Rep(TRUE, 3) \o Rep(FALSE, k)
MergePattern == Rep(TRUE, 2) \o Rep(FALSE, 1) \o Rep(TRUE, 2) \o Rep(FALSE, MaxQuiet)
Patterns == {BoundaryPattern(k) : k \in 0..MaxQuiet} \cup {MergePattern, <<>>}

\* rms >= threshold of block n (lines 92-94 on the block's samples)
Loud(n) == n \in 1..Len(pattern) /\ pattern[n]

\* time.time() at line 95: the device has delivered one block per BlockTicks.
Now == delivered * BlockTicks

\* --------------------------------------------- object attributes
\* The attributes AudioCaptureThread.__init__ sets.  No statement of run()
\* assigns a name before reading it, so the set is the same in every state.
InitAttrs == {"segment_queue", "stop_event", "sample_rate", "silence_sec",
              "silience_threshold", "current_buffer", "_silence_start_time",
              "_audio_frame_queue", "block_size", "_stream_started", "_stream"}

\* Reading self.<a>: AttributeError unless a is set.
HasAttr(a) == a \in InitAttrs

\* ------------------------------------------------------ queues
\* A queue that admits one item more than maxsize.
QFullOffByOne(q, max) == Len(q) > max

\* queue.Queue.put_nowait: Full at maxsize, else append at the tail.
QFull(q, max) == Len(q) >= max
QPut(q, x) == Append(q, x)
\* A LIFO queue: the tail leaves.
QGetLifo(q) == [item |-> q[Len(q)], rest |-> SubSeq(q, 1, Len(q) - 1)]

\* queue.Queue.get / get_nowait on a non-empty queue: the head leaves.
QGet(q) == [item |-> Head(q), rest |-> Tail(q)]

\* ------------------------------------------------ device callback
\* The stream delivers blocks from its start (line 78) until the worker's
\* clean-up stops it (lines 122-125); a worker that died leaves it running.
StreamOpen == capPc \in {"loop", "get", "frame", "raised"}

\* Dropping the newest queued frame instead.
EvictNewest(q) == IF q = <<>> THEN q ELSE SubSeq(q, 1, Len(q) - 1)

\* The overflow branch without its get_nowait: nothing leaves the queue.
EvictNothing(q) == q

\* lines 62-65: get_nowait() drops the oldest frame; Empty is ignored.
EvictOldest(q) == IF q = <<>> THEN q ELSE QGet(q).rest

\* A callback that makes room before every put, full queue or not.
CallbackPutEvictAlways ==
    /\ cbPc = "idle"
    /\ StreamOpen
    /\ delivered < MaxFrames
    /\ delivered' = delivered + 1
    /\ \E status \in BOOLEAN :
         console' = IF status THEN console \cup {"Audio input status"} ELSE console
    /\ cbPc' = "evict"
    /\ cbFrame' = delivered + 1
    /\ UNCHANGED <<frameQ, pattern, capPc, frame, consumed, buffer, silenceStart,
                   stop_event, segQ, mode, interruption>>
    /\ UNCHANGED <<infVars, ctlVars>>

\* lines 53-60: the status diagnostic, then put_nowait of the copied block.
CallbackPut ==
    /\ cbPc = "idle"
    /\ StreamOpen
    /\ delivered < MaxFrames
    /\ delivered' = delivered + 1
    /\ \E status \in BOOLEAN :
         console' = IF status THEN console \cup {"Audio input status"} ELSE console
    /\ IF QFull(frameQ, FrameQueueMax)
         THEN /\ cbPc' = "evict"
              /\ cbFrame' = delivered + 1
              /\ UNCHANGED frameQ
         ELSE /\ frameQ' = QPut(frameQ, delivered + 1)
              /\ UNCHANGED <<cbPc, cbFrame>>
    /\ UNCHANGED <<pattern, capPc, frame, consumed, buffer, silenceStart, stop_event, segQ,
                   mode, interruption>>
    /\ UNCHANGED <<infVars, ctlVars>>

\* lines 61-65
CallbackEvict ==
    /\ cbPc = "evict"
    /\ frameQ' = EvictOldest(frameQ)
    /\ cbPc' = "retry"
    /\ UNCHANGED <<cbFrame, delivered, pattern, capPc, frame, consumed, buffer, silenceStart,
                   stop_event, segQ, mode, interruption, console>>
    /\ UNCHANGED <<infVars, ctlVars>>

\* lines 66-71: put_nowait again; if still Full the new frame is dropped.
CallbackRetry ==
    /\ cbPc = "retry"
    /\ frameQ' = IF QFull(frameQ, FrameQueueMax) THEN frameQ ELSE QPut(frameQ, cbFrame)
    /\ cbPc' = "idle"
    /\ cbFrame' = 0
    /\ UNCHANGED <<delivered, pattern, capPc, frame, consumed, buffer, silenceStart,
                   stop_event, segQ, mode, interruption, console>>
    /\ UNCHANGED <<infVars, ctlVars>>

\* ------------------------------------------------ capture worker
\* lines 75-82: building the stream reads self.samplerate inside the try; an
\* AttributeError, like a device error, is caught, printed, and run() returns.
OpenOutcomes == IF HasAttr("samplerate") THEN BOOLEAN ELSE {FALSE}

\* Lines 80-82 without the return: the failure is printed and run() goes on
\* to its loop.
CapOpenNoReturn ==
    /\ capPc = "open"
    /\ capPc' = "loop"
    /\ \E ok \in OpenOutcomes :
         console' = IF ok THEN console
                    ELSE console \cup {"Failed to start audio stream"}
    /\ UNCHANGED <<cbPc, cbFrame, delivered, pattern, frameQ, frame, consumed,
                   buffer, silenceStart, stop_event, segQ, mode, interruption>>
    /\ UNCHANGED <<infVars, ctlVars>>

CapOpen ==
    /\ capPc = "open"
    /\ \E ok \in OpenOutcomes :
         IF ok
           THEN capPc' = "loop" /\ UNCHANGED console
           ELSE /\ capPc' = "failed"
                /\ console' = console \cup {"Failed to start audio stream"}
    /\ UNCHANGED <<cbPc, cbFrame, delivered, pattern, frameQ, frame, consumed,
                   buffer, silenceStart, stop_event, segQ, mode, interruption>>
    /\ UNCHANGED <<infVars, ctlVars>>

\* A loop that never looks at the stop event.
CapLoopForever == TRUE

\* A loop that drains the frame queue before it honours the stop event.
CapLoopUntilDrained == ~stop_event \/ frameQ # <<>>

\* line 84: while not self.stop_event.is_set()
CapLoopCondition == ~stop_event

\* line 84, and lines 121-127 when the stop event is set.
CapCheck ==
    /\ capPc = "loop"
    /\ capPc' = IF CapLoopCondition THEN "get" ELSE "done"
    /\ UNCHANGED <<cbPc, cbFrame, delivered, pattern, frameQ, frame, consumed,
                   buffer, silenceStart, stop_event, segQ, mode, interruption, console>>
    /\ UNCHANGED <<infVars, ctlVars>>

\* lines 85-90: get(timeout=0.1) gives the head, or Empty after the timeout.
CapGet ==
    /\ capPc = "get"
    /\ IF frameQ # <<>>
         THEN /\ frame' = QGet(frameQ).item
              /\ frameQ' = QGet(frameQ).rest
              /\ consumed' = consumed + 1
              /\ capPc' = "frame"
         ELSE /\ capPc' = "loop"
              /\ UNCHANGED <<frame, frameQ, consumed>>
    /\ UNCHANGED <<cbPc, cbFrame, delivered, pattern, buffer, silenceStart,
                   stop_event, segQ, mode, interruption, console>>
    /\ UNCHANGED <<infVars, ctlVars>>

\* lines 104-114: the utterance is the concatenated buffer; buffer and timer
\* are reset; put_nowait, and on Full the utterance is dropped with a warning.
Finalize(buf, sq) ==
    [raised |-> FALSE, buffer |-> <<>>, timer |-> NoTime,
     segQ |-> IF QFull(sq, SegmentQueueMax) THEN sq ELSE QPut(sq, Utt(buf)),
     warned |-> QFull(sq, SegmentQueueMax)]

\* Line 102 without its last conjunct: a qualifying silence finalizes
\* whatever the buffer holds.
QuietFrameNoBufferTest(buf, timer, now, sq) ==
    LET t1 == IF timer = NoTime THEN now ELSE timer
    IN  IF t1 # NoTime /\ now - t1 >= SilenceTicks
          THEN [raised |-> FALSE, buffer |-> <<>>, timer |-> NoTime,
                segQ |-> IF QFull(sq, SegmentQueueMax) THEN sq ELSE QPut(sq, Utt(buf)),
                warned |-> QFull(sq, SegmentQueueMax)]
          ELSE [raised |-> FALSE, buffer |-> buf, timer |-> t1, segQ |-> sq,
                warned |-> FALSE]

\* lines 96-114 for a quiet frame: line 100 starts the timer; line 102 reads
\* self._current_buffer only after the two tests before it hold.
QuietFrame(buf, timer, now, sq) ==
    LET t1 == IF timer = NoTime THEN now ELSE timer
        keep(r) == [raised |-> r, buffer |-> buf, timer |-> t1, segQ |-> sq,
                    warned |-> FALSE]
    IN  IF ~(t1 # NoTime /\ now - t1 >= SilenceTicks) THEN keep(FALSE)
        ELSE IF ~HasAttr("_current_buffer") THEN keep(TRUE)
        ELSE IF buf = <<>> THEN keep(FALSE)
        ELSE Finalize(buf, sq)

\* lines 115-120 for a loud frame: append, clear the timer.
LoudFrame(buf, timer, f, sq) ==
    IF ~HasAttr("_current_buffer")
      THEN [raised |-> TRUE, buffer |-> buf, timer |-> timer, segQ |-> sq,
            warned |-> FALSE]
      ELSE [raised |-> FALSE, buffer |-> Append(buf, f), timer |-> NoTime,
            segQ |-> sq, warned |-> FALSE]

\* lines 92-120: one iteration's work on frame f.  Line 96 reads
\* self.silence_threshold before anything is changed.
ProcessFrame(buf, timer, f, loud, now, sq) ==
    IF ~HasAttr("silence_threshold")
      THEN [raised |-> TRUE, buffer |-> buf, timer |-> timer, segQ |-> sq,
            warned |-> FALSE]
      ELSE IF loud THEN LoudFrame(buf, timer, f, sq)
                   ELSE QuietFrame(buf, timer, now, sq)

\* An uncaught exception ends run(): the thread dies, the stream stays open.
CapFrame ==
    /\ capPc = "frame"
    /\ LET r == ProcessFrame(buffer, silenceStart, frame, Loud(frame), Now, segQ)
       IN  /\ capPc' = IF r.raised THEN "raised" ELSE "loop"
           /\ buffer' = r.buffer
           /\ silenceStart' = r.timer
           /\ segQ' = r.segQ
           /\ console' = IF r.warned
                           THEN console \cup {"Warning: transcription queue is full"}
                           ELSE console
    /\ frame' = 0
    /\ UNCHANGED <<cbPc, cbFrame, delivered, pattern, frameQ, consumed, stop_event, mode,
                   interruption>>
    /\ UNCHANGED <<infVars, ctlVars>>

\* ------------------------------------------------ inference worker
\* lines 157-163: the model load succeeds, or fails, is printed, and run() returns.
InfLoad ==
    /\ infPc = "load"
    /\ \E ok \in BOOLEAN :
         IF ok
           THEN infPc' = "check" /\ UNCHANGED console
           ELSE /\ infPc' = "failed"
                /\ console' = console \cup {"Failed to load Whisper model"}
    /\ UNCHANGED <<segment, language, transcribed, shown, logged, segQ, mode,
                   interruption, stop_event>>
    /\ UNCHANGED <<capVars, ctlVars>>

\* line 165, and line 203 when interruption was requested.
InfCheck ==
    /\ infPc = "check"
    /\ infPc' = IF interruption THEN "done" ELSE "get"
    /\ UNCHANGED <<segment, language, transcribed, shown, logged, segQ, mode,
                   interruption, stop_event, console>>
    /\ UNCHANGED <<capVars, ctlVars>>

\* lines 166-172: get(timeout=0.1) gives the head, or Empty after the
\* timeout; the sentinel None ends the loop.
InfGet ==
    /\ infPc = "get"
    /\ IF segQ # <<>>
         THEN /\ segment' = QGet(segQ).item
              /\ segQ' = QGet(segQ).rest
              /\ infPc' = IF QGet(segQ).item.none THEN "done" ELSE "asr"
         ELSE /\ infPc' = "check"
              /\ UNCHANGED <<segment, segQ>>
    /\ UNCHANGED <<language, transcribed, shown, logged, mode, interruption,
                   stop_event, console>>
    /\ UNCHANGED <<capVars, ctlVars>>

\* The hint of the mode in force when the utterances were queued.
LanguageAtCapture(m) == "en"

\* line 177
LanguageOf(m) == IF m = "EN->AR" THEN "en" ELSE "ar"

\* lines 174-186: the hint is taken from the mode, the model transcribes; an
\* exception is caught and counts as empty text; empty text skips the segment.
InfTranscribe ==
    /\ infPc = "asr"
    /\ language' = LanguageOf(mode)
    /\ \E out \in {"text", "empty", "raise"} :
         /\ transcribed' = IF out = "text"
                             THEN AsrText(segment.frames[1], LanguageOf(mode))
                             ELSE EmptyText
         /\ console' = IF out = "raise"
                         THEN console \cup {"Transcription failed"}
                         ELSE console
         /\ infPc' = IF out = "text" THEN "translate" ELSE "check"
    /\ UNCHANGED <<segment, shown, logged, segQ, mode, interruption, stop_event>>
    /\ UNCHANGED <<capVars, ctlVars>>

\* Logging the transcription in both modes.
SourceText(m, src, translated) == src

\* lines 188-195: the text logged as English is the transcription in EN->AR
\* and the translation in AR->EN.
EnglishText(m, src, translated) == IF m = "EN->AR" THEN src ELSE translated

\* line 197
Emitted(translated) == IF translated = NoText THEN EmptyText ELSE translated

\* lines 199-200, and Logger.log's own test (src/logger.py line 37)
Logged(english, before) == IF Truthy(english) THEN english ELSE before

\* lines 188-200: the mode is read again and the translator called outside any
\* try: an exception leaves run().  Otherwise the translation is emitted and
\* the English text, if any, is logged.
InfTranslate ==
    /\ infPc = "translate"
    /\ \E out \in {"text", "empty", "none", "raise"} :
         IF out = "raise"
           THEN /\ infPc' = "raised"
                /\ UNCHANGED <<shown, logged>>
           ELSE LET translated == CASE out = "text" -> MtText(transcribed, mode)
                                    [] out = "empty" -> EmptyText
                                    [] OTHER -> NoText
                IN  /\ shown' = Emitted(translated)
                    /\ logged' = Logged(EnglishText(mode, transcribed, translated), logged)
                    /\ infPc' = "check"
    /\ UNCHANGED <<segment, language, transcribed, segQ, mode, interruption,
                   stop_event, console>>
    /\ UNCHANGED <<capVars, ctlVars>>

\* ------------------------------------------------ controller
CapTerminated == capPc \in {"done", "failed", "raised"}
InfTerminated == infPc \in {"done", "failed", "raised"}

\* line 234
StopSet ==
    /\ stopPc = "idle"
    /\ stop_event' = TRUE
    /\ stopPc' = "join"
    /\ stopSnap' = <<capPc, infPc>>
    /\ UNCHANGED <<modeArg, modeErr, evicted, segQ, mode, interruption, console>>
    /\ UNCHANGED <<capVars, infVars>>

\* join() without a timeout.
JoinWithoutTimeout == CapTerminated

\* line 235: join returns when the capture worker has ended or after 5 s.
JoinReturns == TRUE

StopJoin ==
    /\ stopPc = "join"
    /\ JoinReturns
    /\ stopPc' = "put"
    /\ UNCHANGED <<stopSnap, modeArg, modeErr, evicted, stop_event, segQ, mode,
                   interruption, console>>
    /\ UNCHANGED <<capVars, infVars>>

\* lines 237-239: put_nowait(None)
StopPut ==
    /\ stopPc = "put"
    /\ IF QFull(segQ, SegmentQueueMax)
         THEN stopPc' = "evict" /\ UNCHANGED segQ
         ELSE stopPc' = "interrupt" /\ segQ' = QPut(segQ, NoneItem)
    /\ UNCHANGED <<stopSnap, modeArg, modeErr, evicted, stop_event, mode, interruption,
                   console>>
    /\ UNCHANGED <<capVars, infVars>>

\* stop() without lines 241-244: nothing is removed before the second put.
StopNoEvict ==
    /\ stopPc = "evict"
    /\ stopPc' = "retry"
    /\ UNCHANGED <<stopSnap, modeArg, modeErr, evicted, stop_event, segQ, mode,
                   interruption, console>>
    /\ UNCHANGED <<capVars, infVars>>

\* lines 241-244: get_nowait() drops the head; Empty is ignored.
StopEvict ==
    /\ stopPc = "evict"
    /\ segQ' = IF segQ = <<>> THEN segQ ELSE QGet(segQ).rest
    /\ evicted' = IF segQ = <<>> THEN evicted ELSE Append(evicted, QGet(segQ).item)
    /\ stopPc' = "retry"
    /\ UNCHANGED <<stopSnap, modeArg, modeErr, stop_event, mode, interruption,
                   console>>
    /\ UNCHANGED <<capVars, infVars>>

\* lines 245-248: put_nowait(None) again, any exception ignored.
StopRetry ==
    /\ stopPc = "retry"
    /\ segQ' = IF QFull(segQ, SegmentQueueMax) THEN segQ ELSE QPut(segQ, NoneItem)
    /\ stopPc' = "interrupt"
    /\ UNCHANGED <<stopSnap, modeArg, modeErr, evicted, stop_event, mode, interruption,
                   console>>
    /\ UNCHANGED <<capVars, infVars>>

\* line 250
StopInterrupt ==
    /\ stopPc = "interrupt"
    /\ interruption' = TRUE
    /\ stopPc' = "wait"
    /\ UNCHANGED <<stopSnap, modeArg, modeErr, evicted, stop_event, segQ, mode, console>>
    /\ UNCHANGED <<capVars, infVars>>

\* line 252: wait(5000) returns when the inference worker has ended or after 5 s.
WaitReturns == TRUE

StopWait ==
    /\ stopPc = "wait"
    /\ WaitReturns
    /\ stopPc' = "returned"
    /\ UNCHANGED <<stopSnap, modeArg, modeErr, evicted, stop_event, segQ, mode,
                   interruption, console>>
    /\ UNCHANGED <<capVars, infVars>>

\* Assigning before validating.
set_mode_unchecked(m, cur) ==
    [mode |-> m, err |-> IF m \notin ValidModes THEN "ValueError" ELSE ""]

\* A mode that can be left once only: a second change is ignored.
set_mode_latched(m, cur) ==
    IF m \notin ValidModes THEN [mode |-> cur, err |-> "ValueError"]
    ELSE [mode |-> IF cur = "EN->AR" THEN m ELSE cur, err |-> ""]

\* lines 259-261: [mode |-> the worker's mode after the call, err |-> raised]
set_mode(m, cur) ==
    IF m \notin ValidModes THEN [mode |-> cur, err |-> "ValueError"]
                           ELSE [mode |-> m, err |-> ""]

\* set_mode is called from the GUI thread (src/gui.py lines 57, 62), the
\* thread that calls stop() once the event loop has ended (src/main.py lines 30-34).
SetMode ==
    /\ stopPc = "idle"
    /\ \E m \in ModeArgs :
         /\ modeArg' = m
         /\ mode' = set_mode(m, mode).mode
         /\ modeErr' = set_mode(m, mode).err
    /\ UNCHANGED <<stopPc, stopSnap, evicted, stop_event, segQ, interruption, console>>
    /\ UNCHANGED <<capVars, infVars>>

\* ------------------------------------------------ initial states
\* n utterances in the order they were finalized
UttQueue(n) == [i \in 1..n |-> Utt(<<i>>)]

\* After AudioCaptureThread.__init__ (lines 29-46), ASRTranscriber.__init__
\* (lines 146-152), ASR.__init__ (lines 217-222) and start() (lines 227-229).
InitObjects ==
    /\ cbPc = "idle" /\ cbFrame = 0 /\ delivered = 0 /\ frameQ = <<>>
    /\ frame = 0 /\ consumed = 0 /\ buffer = <<>> /\ silenceStart = NoTime
    /\ stop_event = FALSE
    /\ infPc = "load" /\ segment = NoneItem /\ language = ""
    /\ transcribed = NoText /\ shown = NoText /\ logged = NoText
    /\ mode = "EN->AR" /\ interruption = FALSE
    /\ stopPc = "idle" /\ stopSnap = <<"", "">> /\ modeArg = "" /\ modeErr = ""
    /\ evicted = <<>>
    /\ console = {}

\* The pipeline as started, the segment queue holding n utterances.
Init ==
    /\ InitObjects
    /\ capPc = "open"
    /\ pattern = <<>>
    /\ \E n \in 0..SegmentQueueMax : segQ = UttQueue(n)

\* The capture worker at the head of its loop, the stream delivering blocks
\* of one energy pattern, the segment queue empty or full.
InitCap ==
    /\ InitObjects
    /\ capPc = "loop"
    /\ pattern \in Patterns
    /\ segQ \in {UttQueue(0), UttQueue(SegmentQueueMax)}

\* Both workers in their loops' first pass, nothing enqueued.
InitStop ==
    /\ InitObjects
    /\ capPc = "loop"
    /\ pattern = <<>>
    /\ segQ = <<>>

Stop == StopSet \/ StopJoin \/ StopPut \/ StopEvict \/ StopRetry
          \/ StopInterrupt \/ StopWait
Inference == InfLoad \/ InfCheck \/ InfGet \/ InfTranscribe \/ InfTranslate
Callback == CallbackPut \/ CallbackEvict \/ CallbackRetry
CaptureLoop == CapCheck \/ CapGet \/ CapFrame

Next == CapOpen \/ Inference \/ Stop \/ SetMode
Spec == Init /\ [][Next]_vars

NextCap == Callback \/ CaptureLoop \/ StopSet
SpecCap == InitCap /\ [][NextCap]_vars

NextStop == CapCheck \/ CapGet \/ InfLoad \/ InfCheck \/ InfGet
              \/ StopSet \/ StopJoin \/ StopPut \/ StopInterrupt \/ StopWait
SpecStop == InitStop /\ [][NextStop]_vars

\* Every thread of the pipeline at once: the callback, the capture worker at
\* the head of its loop, the inference worker and stop(), on a silent stream
\* and a full segment queue.
InitAll ==
    /\ InitObjects
    /\ capPc = "loop"
    /\ pattern = <<>>
    /\ segQ = UttQueue(SegmentQueueMax)

NextAll == Callback \/ CaptureLoop \/ Inference \/ Stop
SpecAll == InitAll /\ [][NextAll]_vars

\* ------------------------------------------------ fairness
\* Each thread is scheduled, and every wait in it is bounded by a timeout.
CaptureFair == WF_vars(CapCheck \/ CapGet)
InferenceFair == WF_vars(InfLoad \/ InfCheck \/ InfGet)
StopFair == WF_vars(StopJoin \/ StopPut \/ StopEvict \/ StopRetry
                      \/ StopInterrupt \/ StopWait)

\* Nothing enqueued, every thread scheduled.
FairSpecStop == SpecStop /\ CaptureFair /\ InferenceFair /\ StopFair

\* Only the controller thread is sure to run: a worker may be stuck for good.
FairSpecCtl == Spec /\ StopFair

\* ------------------------------------------------ claims
\* The device has delivered d blocks and the capture worker has nothing left
\* to do with them: it has ended, or it waits on an empty frame queue.
CaptureSettled(d) ==
    /\ delivered = d
    /\ cbPc = "idle"
    /\ ~stop_event
    /\ \/ CapTerminated
       \/ capPc \in {"loop", "get"} /\ frameQ = <<>>

\* C1: once 3 loud blocks and k quiet blocks have gone through the
\* segmentation loop, which started with an empty buffer and an unset timer,
\* the utterance of the 3 loud frames has been emitted iff
\* k * block_duration >= silence_duration; otherwise nothing has been emitted
\* and the buffer holds the 3 frames.
C1_SegmentationBoundary ==
    \A k \in 0..MaxQuiet :
        (pattern = BoundaryPattern(k) /\ CaptureSettled(3 + k)
           /\ Len(segQ) < SegmentQueueMax)
          => IF k * BlockTicks >= SilenceTicks
               THEN segQ = <<Utt(<<1, 2, 3>>)>>
               ELSE segQ = <<>> /\ buffer = <<1, 2, 3>>

\* C2: if stop() is entered while the capture worker and the inference worker
\* each wait in their queue read, both loops are eventually left, with
\* nothing ever enqueued.
C2_ShutdownTermination ==
    (stopSnap = <<"get", "get">>) ~> (capPc = "done" /\ infPc = "done")

C2_Witness ==
    stopSnap = <<"get", "get">> /\ capPc = "done" /\ infPc = "done"
      /\ frameQ = <<>> /\ consumed = 0

\* The last min(d, capacity) of d delivered frames, in delivery order.
LastDelivered(d) ==
    LET n == IF d < FrameQueueMax THEN d ELSE FrameQueueMax
    IN  [i \in 1..n |-> d - n + i]

\* C3: while nothing is drained, a callback that finds 10 frames queued evicts
\* the head and appends the new frame at the tail; the queue holds the last
\* 10 frames delivered, in delivery order.
C3_FrameQueueDropOldest ==
    consumed = 0 =>
        /\ cbPc = "idle" => frameQ = LastDelivered(delivered)
        /\ cbPc = "evict" => frameQ = LastDelivered(delivered - 1)
                               /\ Len(frameQ) = FrameQueueMax
        /\ cbPc = "retry" => frameQ = Tail(LastDelivered(delivered - 1))

C3_Witness ==
    /\ consumed = 0 /\ cbPc = "idle"
    /\ delivered = FrameQueueMax + 1
    /\ frameQ = [i \in 1..FrameQueueMax |-> i + 1]

\* C4: an utterance finalized while the segment queue holds 5 items is
\* discarded with a warning, and the 5 items stay as they were.
C4_SegmentQueueDropAndWarn ==
    (pattern = BoundaryPattern(MaxQuiet) /\ CaptureSettled(3 + MaxQuiet)
       /\ Len(segQ) = SegmentQueueMax)
      => /\ "Warning: transcription queue is full" \in console
         /\ segQ = UttQueue(SegmentQueueMax)
         /\ buffer = <<>>

\* C5: 2 loud, 1 quiet (shorter than silence_duration), 2 loud and a
\* qualifying silence give exactly one utterance of the 4 loud frames.
C5_SilenceMerge ==
    (pattern = MergePattern /\ CaptureSettled(Len(MergePattern))
       /\ Len(segQ) < SegmentQueueMax)
      => segQ = <<Utt(<<1, 2, 4, 5>>)>>

\* C6: a set_mode call with an argument outside {"EN->AR", "AR->EN"} raises
\* ValueError and changes neither the mode nor anything else of the pipeline.
C6_InvalidModeRejected ==
    [][(modeArg' \notin ValidModes /\ <<modeArg, modeErr>>' # <<modeArg, modeErr>>)
         => /\ modeErr' = "ValueError"
            /\ mode' = mode
            /\ UNCHANGED <<capVars, infVars, stopPc, stopSnap, evicted,
                           stop_event, segQ, interruption, console>>]_vars

C6_Witness == modeArg = "FR->EN" /\ modeErr = "ValueError" /\ mode = "AR->EN"

\* C7: a failure of acoustic inference or of translation never ends the
\* inference worker: the utterance is skipped and the loop goes on.
C7_FailureRecovered ==
    [][(infPc \in {"asr", "translate"} /\ infPc' # infPc)
         => infPc' \in {"translate", "check"}]_vars

\* C8: utterances are dequeued by the inference worker in the order they were
\* finalized, whatever stop() evicts in between.
C8_UtteranceOrder ==
    [][(infPc = "get" /\ infPc' = "asr")
         => (segment.none \/ segment'.frames[1] > segment.frames[1])]_vars

C8_Witness ==
    /\ evicted = <<Utt(<<1>>)>>
    /\ shown.utt = 2
    /\ segment = Utt(<<3>>)

\* C9: stop(), once entered, returns, whatever the workers do.
C9_StopReturns == (stopPc # "idle") ~> (stopPc = "returned")

C9_Witness == stopPc = "returned" /\ ~CapTerminated /\ ~InfTerminated

\* C10 as stated: every utterance with a non-empty transcription has its
\* translation emitted and its source-language text logged, in both modes.
C10_SourceTextLogged ==
    [][(infPc = "translate" /\ infPc' = "check")
         => /\ shown' \in {MtText(transcribed, mode), EmptyText}
            /\ logged' = transcribed]_vars

\* C10 amended: when the translation call returns, its result ("" for None)
\* is emitted, and the English text is logged if non-empty: the transcription
\* in EN->AR, the translation in AR->EN.  When the call raises, nothing is
\* emitted or logged and the worker ends.
C10_EnglishTextLogged ==
    [][(infPc = "translate" /\ infPc' # infPc)
         => \/ /\ infPc' = "raised"
               /\ UNCHANGED <<shown, logged>>
            \/ /\ infPc' = "check"
               /\ shown' \in {MtText(transcribed, mode), EmptyText}
               /\ logged' = IF mode = "EN->AR" THEN transcribed
                            ELSE IF shown'.kind = "mt" THEN shown'
                            ELSE logged]_vars

C10_Witness ==
    /\ shown.kind = "mt" /\ shown.dir = "AR->EN" /\ shown.lang = "ar"
    /\ logged = shown

\* C11: set_mode("AR->EN") followed by set_mode("EN->AR") puts back the mode
\* of construction, and an utterance transcribed while the last call is that
\* second one gets the hint it gets when set_mode was never called: "en".
C11_ModeRoundTrip ==
    [][/\ (modeArg = "AR->EN" /\ modeErr = "" /\ mode = "AR->EN"
             /\ modeArg' = "EN->AR")
            => (mode' = "EN->AR" /\ modeErr' = "")
       /\ (infPc = "asr" /\ infPc' # infPc /\ modeArg \in {"", "EN->AR"})
            => language' = "en"]_vars

\* Utterance 1 was transcribed under AR->EN, the mode was set back, and
\* utterance 2 is transcribed with the hint of construction.
C11_Witness ==
    /\ shown.utt = 1 /\ shown.lang = "ar"
    /\ modeArg = "EN->AR" /\ mode = "EN->AR"
    /\ infPc = "translate" /\ transcribed = AsrText(2, "en") /\ language = "en"

\* C12: with an empty buffer and quiet frames only, the segmentation loop
\* pushes nothing to the segment queue, however many blocks are delivered:
\* no step of an all-silence stream changes the segment queue or the buffer,
\* and lines 96-114 on a quiet frame and an empty buffer leave the queue as
\* it is whatever the timer holds and however long the silence has lasted.
C12_AllSilenceNoEmission ==
    [][/\ pattern = <<>> => (segQ' = segQ /\ buffer' = <<>>)
       /\ \A t \in {NoTime} \cup 0..Now :
             LET r == QuietFrame(<<>>, t, Now, segQ)
             IN  r.segQ = segQ /\ r.buffer = <<>> /\ ~r.warned]_vars

\* All blocks of a silent stream delivered, one of them gone through line 96.
C12_Witness ==
    /\ pattern = <<>> /\ delivered = MaxFrames /\ cbPc = "idle"
    /\ consumed = 1 /\ frame = 0 /\ capPc # "frame"
    /\ segQ = <<>> /\ buffer = <<>>

\* C13: in a step of the segmentation loop that pushes an utterance, the
\* timer is set (line 100 may have set it in that step), the silence has
\* lasted silence_duration, the buffer is not empty, the utterance pushed is
\* the concatenated buffer, and the step leaves the buffer empty and the
\* timer unset.  (No step of CapFrame pushes: see C13_NoEmissionStep.)
C13_EmissionGuard ==
    [][(capPc = "frame" /\ segQ' # segQ)
         => /\ ~Loud(frame)
            /\ silenceStart # NoTime /\ Now - silenceStart >= SilenceTicks
            /\ buffer # <<>>
            /\ segQ' = Append(segQ, Utt(buffer))
            /\ buffer' = <<>> /\ silenceStart' = NoTime]_vars

\* The segmentation loop never changes the segment queue.
C13_NoEmissionStep == [][capPc = "frame" => segQ' = segQ]_vars

\* The sentinel step of stop() (lines 237-248) ends in this step.
SentinelStepEnds == stopPc \in {"put", "retry"} /\ stopPc' = "interrupt"

\* The sentinel is queued, or the inference worker has taken it and ended.
SentinelDelivered ==
    \/ \E i \in 1..Len(segQ) : segQ[i] = NoneItem
    \/ infPc = "done" /\ segment = NoneItem

C15_SingleModeObservation ==
    [][(infPc = "translate" /\ infPc' # infPc) => language = LanguageOf(mode)]_vars

\* C16: the capture worker leaves its segmentation loop only at the loop's
\* test (line 84) with the stop event set; processing a frame, loud or quiet,
\* goes back to the loop's head and never raises.
C16_LoopExitCondition ==
    [][/\ (capPc \in {"loop", "get", "frame"} /\ capPc' \notin {"loop", "get", "frame"})
            => (capPc = "loop" /\ stop_event /\ capPc' = "done")
       /\ (capPc = "frame" /\ capPc' # capPc) => capPc' = "loop"]_vars

\* C17: whatever the callback, the segmentation loop, the inference loop and
\* stop() do, the frame queue never holds more than 10 frames and the segment
\* queue never more than 5 items, sentinel included.
C17_QueueBounds ==
    /\ Len(frameQ) <= FrameQueueMax
    /\ Len(segQ) <= SegmentQueueMax

\* Both queues full while the callback and stop() each try to put.
C17_Witness ==
    /\ Len(frameQ) = FrameQueueMax /\ cbPc = "evict"
    /\ Len(segQ) = SegmentQueueMax /\ stopPc = "evict"
    /\ infPc = "get"

\* C18: an utterance queued before a call set_mode(m) and transcribed after
\* it (m being the last call made) is transcribed with the hint of m, not
\* with the hint of the mode in force when it was queued.  All utterances are
\* queued under the mode of construction, EN->AR.
C18_StaleModeNewHint ==
    [][(infPc = "asr" /\ infPc' # infPc /\ modeArg \in ValidModes)
         => /\ language' = (IF modeArg = "AR->EN" THEN "ar" ELSE "en")
            /\ transcribed' \in {EmptyText, AsrText(segment.frames[1], language')}]_vars

\* Utterance 1 went through under EN->AR; utterance 2, queued with it, is
\* transcribed as Arabic after set_mode("AR->EN").
C18_Witness ==
    /\ shown.utt = 1 /\ shown.lang = "en" /\ shown.dir = "EN->AR"
    /\ modeArg = "AR->EN" /\ modeErr = ""
    /\ infPc = "translate" /\ transcribed = AsrText(2, "ar")

\* C19: the loop's test ends the loop when it finds the stop event set,
\* whatever the frame queue and the buffer hold; from then on the capture
\* worker dequeues no frame and pushes nothing to the segment queue, and the
\* buffer stays as it was.
C19_NoEmissionAfterShutdown ==
    [][/\ (capPc = "loop" /\ stop_event /\ capPc' # capPc) => capPc' = "done"
       /\ capPc = "done"
            => /\ capPc' = "done"
               /\ segQ' = segQ /\ consumed' = consumed /\ buffer' = buffer]_vars

\* The worker has ended on the stop event with loud frames left unread.
C19_Witness ==
    /\ capPc = "done" /\ stop_event
    /\ pattern = BoundaryPattern(0) /\ consumed = 0
    /\ frameQ = <<1, 2, 3>> /\ segQ = <<>>

\* C20: after a failed model load the inference worker has ended without
\* having dequeued an item or emitted or logged a text, the segment queue is
\* within its capacity, and the capture worker goes on running for as long as
\* stop() has not been called.
C20_ModelLoadFailure ==
    infPc = "failed"
      => /\ segment = NoneItem /\ language = "" /\ transcribed = NoText
         /\ shown = NoText /\ logged = NoText
         /\ Len(segQ) <= SegmentQueueMax
         /\ ~stop_event => ~CapTerminated

\* C21: when the stream cannot be opened or started, the capture worker
\* prints the failure and ends without entering its loop: it takes no frame
\* and buffers nothing, and nothing but the sentinel of stop() is ever put in
\* the segment queue.  The inference worker, once its model is loaded and
\* with no utterance to take, stays in its polling loop for as long as stop()
\* has not been called.
C21_DeviceError ==
    [][/\ "Failed to start audio stream" \in console'
            => (capPc' = "failed" /\ delivered' = 0 /\ consumed' = 0
                  /\ frameQ' = <<>> /\ buffer' = <<>>)
       /\ (capPc = "open" /\ capPc' = "failed")
            => "Failed to start audio stream" \in console'
       /\ capPc = "failed" => capPc' = "failed"
       /\ Len(segQ') > Len(segQ) => segQ' = Append(segQ, NoneItem)
       /\ (capPc = "failed" /\ stopPc' = "idle" /\ segment = NoneItem
             /\ infPc \in {"check", "get"})
            => (infPc' \in {"check", "get"} \/ segQ # <<>>)]_vars

\* The stream failed to open, the queue is empty and was never read with
\* success, and the inference worker polls it.
C21_Witness ==
    /\ capPc = "failed" /\ "Failed to start audio stream" \in console
    /\ segQ = <<>> /\ segment = NoneItem /\ stopPc = "idle"
    /\ infPc = "get" /\ modeArg = "AR->EN"

\* C22: the callback being the only producer of the frame queue and the
\* segmentation loop its only consumer, a callback returns with its frame at
\* the tail of the frame queue, whether by the first put (line 59) or by the
\* second (line 68); the second put never finds the queue full, so lines
\* 69-71 never drop the new frame.
C22_NewFrameAdmitted ==
    [][/\ (cbPc = "idle" /\ delivered' = delivered + 1 /\ cbPc' = "idle")
            => frameQ' = Append(frameQ, delivered')
       /\ (cbPc = "retry" /\ cbPc' = "idle")
            => (Len(frameQ) < FrameQueueMax /\ frameQ' = Append(frameQ, cbFrame))
       /\ cbPc' = "idle" /\ delivered' > 0 /\ delivered' # delivered
            => frameQ'[Len(frameQ')] = delivered']_vars

\* Block 11 found the queue full; the worker took frame 1, the callback
\* evicted frame 2 and put frame 11 behind the other eight.
C22_Witness ==
    /\ cbPc = "idle" /\ delivered = FrameQueueMax + 1 /\ consumed = 1
    /\ frameQ = [i \in 1..(FrameQueueMax - 1) |-> i + 2]

\* C23 as stated: the callback removes a queued frame only when the frame
\* queue holds 10 frames at the moment of the removal.
C23_EvictionOnlyWhenFull ==
    [][(cbPc = "evict" /\ cbPc' = "retry" /\ frameQ' # frameQ)
         => Len(frameQ) = FrameQueueMax]_vars

\* C23 amended: the callback removes a queued frame only at line 63, in a
\* call whose first put found 10 frames queued, and it removes the head and
\* nothing else; frames leave the queue in no other way than by this and by
\* the loop's get.  The queue need not be full any more when the head is
\* removed: the loop may have dequeued since the failed put.
C23_EvictionAfterFullPut ==
    [][/\ (cbPc = "idle" /\ cbPc' = "evict") => Len(frameQ) = FrameQueueMax
       /\ cbPc' = "evict" => cbPc \in {"idle", "evict"}
       /\ (cbPc = "evict" /\ cbPc' = "retry")
            => frameQ' = (IF frameQ = <<>> THEN <<>> ELSE Tail(frameQ))
       /\ Len(frameQ') < Len(frameQ)
            => \/ cbPc = "evict" /\ cbPc' = "retry"
               \/ capPc = "get" /\ capPc' = "frame" /\ frame' = Head(frameQ)]_vars

\* Block 11 found 10 frames queued, the worker took frame 1, and the
\* callback has removed frame 2 from a queue of 9.
C23_Witness ==
    /\ cbPc = "retry" /\ cbFrame = FrameQueueMax + 1 /\ consumed = 1
    /\ frameQ = [i \in 1..(FrameQueueMax - 2) |-> i + 2]

====
